---- MODULE Spec2Model ----
(***************************************************************************)
(* A model of check_homework_web.py: the identifier extraction, the roster *)
(* normalisation (process_roster) and the reconciliation block of the      *)
(* Streamlit script.                                                       *)
(*                                                                         *)
(* Text is a sequence of characters, each character a one-element name.    *)
(* The module is ASCII, so the four CJK characters of the two markers are  *)
(* named by their pinyin: "xue","hao" (U+5B66 U+53F7, the identifier       *)
(* marker) and "xing","ming" (U+59D3 U+540D, the name marker).             *)
(***************************************************************************)
EXTENDS Integers, Sequences, FiniteSets

VARIABLES
    filename, sid,            \* extract_student_id: its argument and its return value
    df, ret,                  \* process_roster: its argument and what the call left behind
    raw_df, uploaded_homeworks,   \* the script's inputs: the roster sheet and the homework files
    outcome,                  \* how the script's last run ended
    roster_df, all_student_ids, total_students, submitted_ids, missing_ids,
    submit_count, missing_count, submit_rate, missing_df, status   \* the last run's values

inputs == <<raw_df, uploaded_homeworks>>
results == <<outcome, roster_df, all_student_ids, total_students, submitted_ids,
             missing_ids, submit_count, missing_count, submit_rate, missing_df, status>>
vars == <<filename, sid, df, ret, inputs, results>>

----------------------------------------------------------------------------
(* Values *)

\* What \d matches among the characters used here (in Python 3 it also matches
\* the decimal digits of other scripts; names and cells here are ASCII).
Digits == {"0", "1", "2", "3", "4", "5", "6", "7", "8", "9"}

\* Python's None (extract_student_id's not-found value) and pandas' NaN (an
\* empty cell): neither is a text, so neither is a sequence of characters.
None == <<"None">>
NaN == <<"NaN">>
\* A local that was never assigned because the call raised before its line.
Unset == <<"unset">>

\* The length of the digit run the pattern \d{9} asks for.
IdLen == 9

IdMarker == <<"xue", "hao">>
NameMarker == <<"xing", "ming">>

\* str(x) and Series.astype(str): a text is itself, NaN becomes 'nan'.
Str(c) == IF c = NaN THEN <<"n", "a", "n">> ELSE c

\* t in s, and Series.str.contains(t) for a pattern with no special character.
Contains(s, t) ==
    \E i \in 1..(Len(s) - Len(t) + 1) : SubSeq(s, i, i + Len(t) - 1) = t

----------------------------------------------------------------------------
(* extract_student_id *)

\* \d{n} tried at position i of s.
RECURSIVE MatchDigits(_, _, _)
MatchDigits(s, i, n) ==
    IF n = 0 THEN TRUE
    ELSE IF i > Len(s) THEN FALSE
    ELSE s[i] \in Digits /\ MatchDigits(s, i + 1, n - 1)

\* re.search: the pattern is tried at each position from the left; the first
\* position where it matches gives the match, and its text is match.group().
RECURSIVE ReSearch(_, _)
ReSearch(s, i) ==
    IF i > Len(s) THEN None
    ELSE IF MatchDigits(s, i, IdLen) THEN SubSeq(s, i, i + IdLen - 1)
    ELSE ReSearch(s, i + 1)

\* Faulty variant: the pattern with word boundaries, \b\d{9}\b, which rejects a run of
\* more than nine digits.
extract_student_id_bounded(name) ==
    LET s == Str(name)
        Hit(i) == /\ MatchDigits(s, i, IdLen)
                  /\ (i = 1 \/ s[i - 1] \notin Digits)
                  /\ (i + IdLen > Len(s) \/ s[i + IdLen] \notin Digits)
        hits == {i \in 1..Len(s) : Hit(i)}
    IN IF hits = {} THEN None
       ELSE LET i == CHOOSE h \in hits : \A g \in hits : h <= g
            IN SubSeq(s, i, i + IdLen - 1)

extract_student_id(name) == ReSearch(Str(name), 1)

----------------------------------------------------------------------------
(* process_roster *)

\* A table is [columns |-> the column labels, rows |-> the rows, in order];
\* a row is a sequence of cells, one per column; a cell is a text or NaN.
\* Cells are kept in their textual form: the code reads them only through
\* astype(str), str() and dropna(). pd.read_excel turns an empty cell and ''
\* into NaN, so no cell of a table the script loads is the empty text.

\* row.astype(str).str.contains(marker).any()
RowHasMarker(row) == \E j \in 1..Len(row) : Contains(Str(row[j]), IdMarker)

\* The loop of lines 25-29 from row i on: the 0-based index of the first row
\* with the marker, or the initial header_row = 0 when the loop ends without one.
RECURSIVE ScanRows(_, _)
ScanRows(rows, i) ==
    IF i > Len(rows) THEN 0
    ELSE IF RowHasMarker(rows[i]) THEN i - 1
    ELSE ScanRows(rows, i + 1)

\* Faulty variant: the loop left out, header_row stays 0.
HeaderRowZero(table) == 0

HeaderRow(table) == ScanRows(table.rows, 1)

\* The positions, in order, of the labels that contain the marker.
Matching(columns, marker) ==
    SelectSeq([j \in 1..Len(columns) |-> j],
              LAMBDA j : Contains(Str(columns[j]), marker))

\* Faulty variant: with no matching label, fall back to the first column.
IdColDefault(columns) ==
    LET m == Matching(columns, IdMarker)
    IN IF m = <<>> THEN columns[1] ELSE columns[m[1]]

\* [c for c in df.columns if marker in str(c)][0]: the first matching label;
\* Unset stands for the IndexError of [0] on an empty list.
IdCol(columns) ==
    LET m == Matching(columns, IdMarker)
    IN IF m = <<>> THEN Unset ELSE columns[m[1]]

NameCol(columns) ==
    LET m == Matching(columns, NameMarker)
    IN IF m = <<>> THEN Unset ELSE columns[m[1]]

\* The positions, in order, of the columns that carry the label.
Labelled(columns, label) ==
    SelectSeq([j \in 1..Len(columns) |-> j], LAMBDA j : columns[j] = label)

\* df[[id_col, name_col]] selects by label: every column labelled id_col, then
\* every column labelled name_col.
SelectColumns(columns, id_col, name_col) ==
    Labelled(columns, id_col) \o Labelled(columns, name_col)

\* Series.str.extract(r'(\d{9})'): the group's text, NaN without a match.
StrExtract(c) ==
    LET m == ReSearch(Str(c), 1) IN IF m = None THEN NaN ELSE m

\* What a call leaves behind: its locals (Unset from the line that raised on)
\* and either the roster it returned or the exception it raised.
\* roster is a sequence of [index |-> the data row's 0-based index after
\* reset_index, cells |-> the cells of the selected columns, the extracted
\* identifier in the identifier column]; roster_columns are its labels.
Frame(header_row, columns, rows, id_col, name_col, selected, roster_columns, roster, error) ==
    [header_row |-> header_row, columns |-> columns, rows |-> rows,
     id_col |-> id_col, name_col |-> name_col, selected |-> selected,
     roster_columns |-> roster_columns, roster |-> roster, error |-> error]

process_roster(table) ==
    LET header_row == HeaderRow(table) IN
    IF header_row + 1 > Len(table.rows)
    THEN \* line 31: df.iloc[header_row] on a table without rows
         Frame(header_row, table.columns, table.rows, Unset, Unset, <<>>, <<>>, <<>>, "IndexError")
    ELSE
    LET columns == table.rows[header_row + 1]
        rows == SubSeq(table.rows, header_row + 2, Len(table.rows))
        id_col == IdCol(columns)
        name_col == NameCol(columns)
    IN
    IF id_col = Unset
    THEN Frame(header_row, columns, rows, Unset, Unset, <<>>, <<>>, <<>>, "IndexError")
    ELSE IF name_col = Unset
    THEN Frame(header_row, columns, rows, id_col, Unset, <<>>, <<>>, <<>>, "IndexError")
    ELSE
    LET selected == SelectColumns(columns, id_col, name_col)
        labels == [p \in 1..Len(selected) |-> columns[selected[p]]]
        \* line 38: dropna() drops a row with NaN in any selected column
        full == SelectSeq([i \in 1..Len(rows) |-> i],
                          LAMBDA i : \A p \in 1..Len(selected) : rows[i][selected[p]] # NaN)
        idAt == Labelled(labels, id_col)
    IN
    IF Len(idAt) # 1
    THEN \* line 39: roster[id_col] is a DataFrame, which has no .str
         Frame(header_row, columns, rows, id_col, name_col, selected, labels, <<>>, "AttributeError")
    ELSE
    LET extracted ==
            [q \in 1..Len(full) |->
                [index |-> full[q] - 1,
                 cells |-> [p \in 1..Len(selected) |->
                              IF p = idAt[1] THEN StrExtract(rows[full[q]][selected[p]])
                              ELSE rows[full[q]][selected[p]]]]]
        \* line 40: dropna(subset=[id_col])
        kept == SelectSeq(extracted, LAMBDA e : e.cells[idAt[1]] # NaN)
        \* line 41: rename
        renamed == [p \in 1..Len(labels) |->
                       IF labels[p] = id_col THEN IdMarker
                       ELSE IF labels[p] = name_col THEN NameMarker ELSE labels[p]]
    IN Frame(header_row, columns, rows, id_col, name_col, selected, renamed, kept, "none")

----------------------------------------------------------------------------
(* The script's reconciliation, lines 58-122 *)

\* The position of the column of a roster that carries the label, as in
\* roster_df[label]; process_roster leaves exactly one identifier column.
ColumnAt(labels, label) == Labelled(labels, label)[1]

\* set(roster_df[IdMarker])
AllStudentIds(roster, idAt) == {roster[q].cells[idAt] : q \in 1..Len(roster)}

\* Lines 66-70: the identifiers of the files that yield one ("if sid" drops
\* None; a match is never the empty text).
SubmittedIds(files) ==
    {extract_student_id(files[i]) : i \in 1..Len(files)} \ {None}

\* Faulty variant: the subtraction left out.
MissingIdsAll(all_ids, submitted) == all_ids

\* Line 73
MissingIds(all_ids, submitted) == all_ids \ submitted

\* a / b, kept as the fraction; a zero denominator is ZeroDivisionError.
Div(a, b) == [num |-> a, den |-> b]

\* Faulty variant: the guard against an empty roster left out.
SubmitRateUnguarded(count, total) == Div(count, total)

\* Line 76
SubmitRate(count, total) == IF total > 0 THEN Div(count, total) ELSE Div(0, 1)

\* Python's order on characters is the order of their code points; the texts
\* compared here are extracted identifiers, which hold digits only.
CodePoint(c) ==
    CASE c = "0" -> 48 [] c = "1" -> 49 [] c = "2" -> 50 [] c = "3" -> 51
      [] c = "4" -> 52 [] c = "5" -> 53 [] c = "6" -> 54 [] c = "7" -> 55
      [] c = "8" -> 56 [] c = "9" -> 57

\* s < t for two texts, character by character.
RECURSIVE StrLess(_, _)
StrLess(s, t) ==
    IF t = <<>> THEN FALSE
    ELSE IF s = <<>> THEN TRUE
    ELSE IF CodePoint(Head(s)) # CodePoint(Head(t))
         THEN CodePoint(Head(s)) < CodePoint(Head(t))
    ELSE StrLess(Tail(s), Tail(t))

\* One entry put in its place in a sorted sequence, after its equals.
RECURSIVE Insert(_, _, _)
Insert(sorted, e, idAt) ==
    IF sorted = <<>> THEN <<e>>
    ELSE IF StrLess(e.cells[idAt], Head(sorted).cells[idAt])
         THEN <<e>> \o sorted
    ELSE <<Head(sorted)>> \o Insert(Tail(sorted), e, idAt)

RECURSIVE SortFrom(_, _, _)
SortFrom(sorted, rest, idAt) ==
    IF rest = <<>> THEN sorted
    ELSE SortFrom(Insert(sorted, Head(rest), idAt), Tail(rest), idAt)

\* Faulty variant: the sort left out.
SortValuesNone(roster, idAt) == roster

\* sort_values(IdMarker): ascending by the identifier text. The order of rows
\* with equal identifiers is the sort's own; here they keep their order.
SortValues(roster, idAt) == SortFrom(<<>>, roster, idAt)

\* Line 102: roster_df[roster_df[IdMarker].isin(missing_ids)].sort_values(IdMarker)
MissingDf(roster, idAt, missing) ==
    SortValues(SelectSeq(roster, LAMBDA e : e.cells[idAt] \in missing), idAt)

\* Faulty variant: the two labels swapped.
StatusSwapped(x, submitted) == IF x \in submitted THEN "Missing" ELSE "Submitted"

\* Line 122's lambda; "Submitted" and "Missing" stand for its two labels.
Status(x, submitted) == IF x \in submitted THEN "Submitted" ELSE "Missing"

----------------------------------------------------------------------------
(* Bounds *)

\* The longest file name given to extract_student_id on its own.
MaxNameLen == 10

NameAlphabet == {"1", "2", "a"}

Names == UNION {[1..n -> NameAlphabet] : n \in 0..MaxNameLen}

\* The most cells (rows times columns) of a table given to process_roster on
\* its own.
MaxCells == 6

Id1 == <<"1", "0", "0", "0", "0", "0", "0", "0", "1">>
Id2 == <<"1", "0", "0", "0", "0", "0", "0", "0", "2">>
Id3 == <<"1", "0", "0", "0", "0", "0", "0", "0", "3">>

\* The cells of those tables: an empty cell, the identifier header, a longer
\* header that contains the identifier marker, the name header, and a run of
\* ten digits. (In a data row the three headers are texts without a digit.)
IdLabel2 == IdMarker \o <<"2">>
LongId == Id1 \o <<"0">>
Other == <<"A">>
Cells == {NaN, IdMarker, IdLabel2, NameMarker, LongId}

Shapes == {sh \in (0..MaxCells) \X (1..MaxCells) : sh[1] * sh[2] <= MaxCells}

\* The labels pd.read_excel gave the table from the sheet's first row: that
\* row was a title, or it was the header itself.
SheetLabels(n) ==
    {[j \in 1..n |-> Other],
     [j \in 1..n |-> IF j = 1 THEN IdMarker ELSE IF j = 2 THEN NameMarker ELSE Other]}

\* The most data rows of a roster sheet and the most homework files the
\* script is run with.
MaxRosterRows == 3
MaxFiles == 2

\* The data rows of those sheets: two identifiers out of order, an identifier
\* inside a run of ten digits (the same as the second row's, under another
\* name), and a row without a name.
DataRows == {<<Id2, <<"B">>>>, <<Id1, <<"A">>>>, <<LongId, <<"C">>>>, <<Id1, NaN>>}

\* A title row, the header row, then data rows; and one sheet whose header
\* has no name column.
RosterSheets ==
    {[columns |-> <<Other, Other>>,
      rows |-> <<<<Other, NaN>>, <<IdMarker, NameMarker>>>> \o data]
        : data \in UNION {[1..n -> DataRows] : n \in 0..MaxRosterRows}}
    \cup {[columns |-> <<Other, Other>>, rows |-> <<<<IdMarker, Other>>, <<Id1, <<"A">>>>>>]}

\* The names of the homework files: one with the first identifier, one with
\* the second inside a run of ten digits, one with an identifier of no roster
\* row, one with no identifier.
FileNames ==
    {Id1 \o <<"_", "h", "w">>,
     <<"n">> \o Id2 \o <<"0">>,
     Id3 \o <<".", "p", "y">>,
     <<"n", "o", "t", "e", "s">>}

Tables ==
    UNION {[columns : SheetLabels(sh[2]), rows : [1..sh[1] -> [1..sh[2] -> Cells]]]
           : sh \in Shapes}

----------------------------------------------------------------------------
(* The idle values of the variables a specification does not use. *)

IdleExtract == filename = <<>> /\ sid = Unset
IdleRoster == df = <<>> /\ ret = <<>>
IdleScript ==
    /\ raw_df = <<>> /\ uploaded_homeworks = <<>> /\ outcome = "idle"
    /\ roster_df = Unset /\ all_student_ids = {} /\ total_students = 0
    /\ submitted_ids = {} /\ missing_ids = {} /\ submit_count = 0
    /\ missing_count = 0 /\ submit_rate = Unset /\ missing_df = Unset /\ status = Unset

----------------------------------------------------------------------------
(* SpecExtract: extract_student_id applied to every name of Names. *)

InitExtract ==
    /\ filename \in Names
    /\ sid = Unset
    /\ IdleRoster
    /\ IdleScript

Extract ==
    /\ sid = Unset
    /\ sid' = extract_student_id(filename)
    /\ UNCHANGED <<filename, df, ret, inputs, results>>

NextExtract == Extract

SpecExtract == InitExtract /\ [][NextExtract]_vars

\* The text has a window of IdLen digits starting at position i.
DigitWindow(s, i) ==
    /\ i >= 1
    /\ i + IdLen - 1 <= Len(s)
    /\ \A j \in i..(i + IdLen - 1) : s[j] \in Digits

\* C3: extract_student_id is total: it returns the leftmost window of exactly
\* nine consecutive digits (the first nine of a longer run), and it returns
\* None exactly when the text has no nine consecutive digits.
C3_LeftmostWindow ==
    sid # Unset =>
        /\ (sid = None) <=> ~ \E i \in 1..Len(filename) : DigitWindow(filename, i)
        /\ sid # None =>
              \E i \in 1..Len(filename) :
                  /\ DigitWindow(filename, i)
                  /\ \A j \in 1..(i - 1) : ~ DigitWindow(filename, j)
                  /\ sid = SubSeq(filename, i, i + IdLen - 1)

\* A run of ten digits whose first nine and last nine differ: the first nine
\* are returned.
C3_Witness ==
    /\ Len(filename) = IdLen + 1
    /\ \A j \in 1..Len(filename) : filename[j] \in Digits
    /\ filename[1] # filename[IdLen + 1]
    /\ sid = SubSeq(filename, 1, IdLen)

----------------------------------------------------------------------------
(* SpecRoster: process_roster applied to every table of Tables. *)

InitRoster ==
    /\ df \in Tables
    /\ ret = <<>>
    /\ IdleExtract
    /\ IdleScript

ProcessRoster ==
    /\ ret = <<>>
    /\ ret' = process_roster(df)
    /\ UNCHANGED <<filename, sid, df, inputs, results>>

NextRoster == ProcessRoster

SpecRoster == InitRoster /\ [][NextRoster]_vars

Called == ret # <<>>
Returned == Called /\ ret.error = "none"

\* The identifier marker occurs in row k (0-based) of the argument and in no
\* other row.
MarkerOnlyInRow(k) ==
    /\ k + 1 \in 1..Len(df.rows)
    /\ \A i \in 1..Len(df.rows) : RowHasMarker(df.rows[i]) <=> i = k + 1

\* C6: when the identifier marker occurs only in row k, row k is the header
\* row whatever k is: its cells are the column labels and the data rows are
\* exactly the rows after it.
C6_HeaderAtK ==
    Called =>
        \A k \in 0..(Len(df.rows) - 1) :
            MarkerOnlyInRow(k) =>
                /\ ret.header_row = k
                /\ ret.columns = df.rows[k + 1]
                /\ ret.rows = SubSeq(df.rows, k + 2, Len(df.rows))

\* The marker only in a row that is not the first, with a data row after it.
C6_Witness ==
    /\ Called
    /\ \E k \in 1..(Len(df.rows) - 2) :
          MarkerOnlyInRow(k) /\ ret.header_row = k /\ Len(ret.rows) >= 1

\* The call got past line 32: ret.columns are the header row's cells.
HeaderSelected == Called /\ ret.header_row + 1 <= Len(df.rows)

\* The data row with 0-based index i is a row of the returned roster.
Kept(i) == \E q \in 1..Len(ret.roster) : ret.roster[q].index = i

\* C7: a data row is kept if and only if nine consecutive digits can be
\* extracted from its identifier cell and its name cell is not empty, the
\* identifier and name columns being the first whose label holds the
\* marker; so every entry of a returned roster has an identifier of exactly
\* nine digits and a name that is not empty.
C7_KeptRows ==
    Returned =>
        LET idPos == Matching(ret.columns, IdMarker)[1]
            namePos == Matching(ret.columns, NameMarker)[1]
            idAt == Labelled(ret.roster_columns, IdMarker)[1]
            nameAt == Labelled(ret.roster_columns, NameMarker)[1]
        IN /\ \A i \in 1..Len(ret.rows) :
                 Kept(i - 1) <=>
                     /\ \E w \in 1..Len(Str(ret.rows[i][idPos])) :
                           DigitWindow(Str(ret.rows[i][idPos]), w)
                     /\ ret.rows[i][namePos] # NaN
           /\ \A q \in 1..Len(ret.roster) :
                 /\ Len(ret.roster[q].cells[idAt]) = IdLen
                 /\ \A j \in 1..IdLen : ret.roster[q].cells[idAt][j] \in Digits
                 /\ ret.roster[q].cells[nameAt] \notin {NaN, <<>>}

\* C9: once the header row is selected, a call with no label holding the
\* identifier marker, or none holding the name marker, raises and returns
\* no roster; otherwise it returns a roster made of the first column whose
\* label holds the identifier marker and the first whose label holds the
\* name marker.
C9_FirstMatchOrError ==
    HeaderSelected =>
        LET ids == Matching(ret.columns, IdMarker)
            names == Matching(ret.columns, NameMarker)
        IN IF ids = <<>> \/ names = <<>>
           THEN ret.error # "none" /\ ret.roster = <<>>
           ELSE ret.error = "none" /\ ret.selected = <<ids[1], names[1]>>

\* C10: process_roster returns a roster only if some scanned row holds the
\* identifier marker; with none, the call ends in the IndexError of the
\* row or column lookup, also when the marker is in the labels the table
\* came with.
C10_NoMarkerNoRoster ==
    Called =>
        \/ \E i \in 1..Len(df.rows) : RowHasMarker(df.rows[i])
        \/ ret.error = "IndexError" /\ ret.header_row = 0 /\ ret.id_col = Unset

\* A table whose own labels hold both markers, whose rows hold data and no
\* marker: the call fails.
C10_Witness ==
    /\ Called
    /\ Contains(df.columns[1], IdMarker)
    /\ Len(df.rows) >= 1
    /\ \A i \in 1..Len(df.rows) : ~ RowHasMarker(df.rows[i])
    /\ \E i \in 1..Len(df.rows) : df.rows[i][1] = LongId
    /\ ret.error = "IndexError"

----------------------------------------------------------------------------
(* Spec: the script. Streamlit runs it from the top each time the uploads  *)
(* change; a run reads the roster sheet and the homework files' names.     *)

Init ==
    /\ raw_df \in RosterSheets
    /\ uploaded_homeworks = <<>>
    /\ outcome = "welcome"
    /\ roster_df = Unset /\ all_student_ids = {} /\ total_students = 0
    /\ submitted_ids = {} /\ missing_ids = {} /\ submit_count = 0
    /\ missing_count = 0 /\ submit_rate = Unset /\ missing_df = Unset /\ status = Unset
    /\ IdleExtract
    /\ IdleRoster

\* The values of a run that did not reach the reconciliation.
NoResults(how) ==
    /\ outcome' = how
    /\ roster_df' = Unset /\ all_student_ids' = {} /\ total_students' = 0
    /\ submitted_ids' = {} /\ missing_ids' = {} /\ submit_count' = 0
    /\ missing_count' = 0 /\ submit_rate' = Unset /\ missing_df' = Unset /\ status' = Unset

\* Lines 62-122 on the roster process_roster returned: the values of the run.
Reconcile(r, files) ==
    LET idAt == ColumnAt(r.roster_columns, IdMarker)
        all == AllStudentIds(r.roster, idAt)
        total == Cardinality(all)
        submitted == SubmittedIds(files)
        missing == MissingIds(all, submitted)
        rate == SubmitRate(Cardinality(submitted), total)
        raised == rate.den = 0                        \* line 76 raised
    IN [outcome |-> IF raised THEN "ZeroDivisionError" ELSE "ok",
        roster_df |-> r.roster,
        all_student_ids |-> all,
        total_students |-> total,
        submitted_ids |-> submitted,
        missing_ids |-> missing,
        submit_count |-> Cardinality(submitted),
        missing_count |-> Cardinality(missing),
        submit_rate |-> rate,
        missing_df |-> IF raised THEN Unset ELSE MissingDf(r.roster, idAt, missing),
        status |-> IF raised THEN Unset
                   ELSE [q \in 1..Len(r.roster) |->
                            Status(r.roster[q].cells[idAt], submitted)]]

\* One run of the script with the given homework files.
Script(files) ==
    /\ uploaded_homeworks' = files
    /\ UNCHANGED <<raw_df, filename, sid, df, ret>>
    /\ IF files = <<>>
       THEN NoResults("welcome")                      \* line 58's else branch
       ELSE \E r \in {process_roster(raw_df)} :
              IF r.error # "none"
              THEN NoResults(r.error)                 \* line 61 raised
              ELSE \E v \in {Reconcile(r, files)} :
                     /\ outcome' = v.outcome
                     /\ roster_df' = v.roster_df
                     /\ all_student_ids' = v.all_student_ids
                     /\ total_students' = v.total_students
                     /\ submitted_ids' = v.submitted_ids
                     /\ missing_ids' = v.missing_ids
                     /\ submit_count' = v.submit_count
                     /\ missing_count' = v.missing_count
                     /\ submit_rate' = v.submit_rate
                     /\ missing_df' = v.missing_df
                     /\ status' = v.status

\* The user adds a homework file.
UploadHomework ==
    /\ Len(uploaded_homeworks) < MaxFiles
    /\ \E f \in FileNames : Script(Append(uploaded_homeworks, f))

\* The user removes one.
RemoveHomework ==
    /\ \E i \in 1..Len(uploaded_homeworks) :
          Script(SubSeq(uploaded_homeworks, 1, i - 1)
                 \o SubSeq(uploaded_homeworks, i + 1, Len(uploaded_homeworks)))

Next == UploadHomework \/ RemoveHomework

Spec == Init /\ [][Next]_vars

\* The identifier of an entry of the last run's roster, and its number.
IdOf(e) == e.cells[1]
RECURSIVE IdValue(_)
IdValue(s) == IF s = <<>> THEN 0 ELSE 10 * IdValue(SubSeq(s, 1, Len(s) - 1)) + (CodePoint(s[Len(s)]) - 48)

RangeOf(seq) == {seq[i] : i \in 1..Len(seq)}

\* C1: the reported counts satisfy missing_count + submit_count =
\* total_students, and no identifier is counted both as submitted and as
\* missing.
C1_CountsAddUp ==
    outcome = "ok" =>
        /\ missing_count + submit_count = total_students
        /\ submitted_ids \cap missing_ids = {}

\* The step adds one homework file whose name yields an identifier that is
\* in no roster row, between two runs that both reached the reconciliation.
AddsUnmatched ==
    /\ outcome = "ok"
    /\ outcome' = "ok"
    /\ \E f \in FileNames :
          /\ uploaded_homeworks' = Append(uploaded_homeworks, f)
          /\ extract_student_id(f) # None
          /\ extract_student_id(f) \notin all_student_ids

\* C2: a submitted identifier that matches no roster row is counted nowhere:
\* adding such a file leaves total_students, submit_count, missing_count,
\* submit_rate, missing_df and every status as they were.
C2_UnmatchedNotCounted ==
    [][AddsUnmatched =>
          /\ total_students' = total_students
          /\ submit_count' = submit_count
          /\ missing_count' = missing_count
          /\ submit_rate'.num * submit_rate.den = submit_rate.num * submit_rate'.den
          /\ missing_df' = missing_df
          /\ status' = status]_vars

\* C4: missing_df holds exactly the roster rows whose identifier is not in
\* the submission set, each once, in ascending order of identifier.
C4_MissingEntries ==
    outcome = "ok" =>
        /\ RangeOf(missing_df) = {e \in RangeOf(roster_df) : IdOf(e) \notin submitted_ids}
        /\ Cardinality(RangeOf(missing_df)) = Len(missing_df)
        /\ \A i \in 1..(Len(missing_df) - 1) :
              IdValue(IdOf(missing_df[i])) <= IdValue(IdOf(missing_df[i + 1]))

\* Three rows are missing: the roster has them out of order and two of them
\* share an identifier under different names.
C4_Witness ==
    /\ outcome = "ok"
    /\ Len(missing_df) = 3
    /\ missing_df # roster_df
    /\ submitted_ids # {}
    /\ \E i, j \in 1..3 :
          /\ i # j
          /\ IdOf(missing_df[i]) = IdOf(missing_df[j])
          /\ missing_df[i].cells[2] # missing_df[j].cells[2]

\* C5: with an empty canonical roster the run completes and submit_rate is
\* 0, whatever was submitted.
C5_EmptyRoster ==
    (outcome \notin {"idle", "welcome"} /\ roster_df = <<>>) =>
        /\ outcome = "ok"
        /\ submit_rate.num = 0
        /\ submit_rate.den # 0

\* An empty roster from a sheet with a data row, against two submitted
\* identifiers.
C5_Witness ==
    /\ outcome = "ok"
    /\ roster_df = <<>>
    /\ Len(raw_df.rows) > 2
    /\ Cardinality(submitted_ids) = 2
    /\ submit_rate.num = 0

\* C8: every roster row has a status; it is Submitted if and only if the
\* row's identifier is in the submission set and Missing otherwise, and it is
\* Missing exactly when the identifier is in missing_ids.
C8_StatusByIdentifier ==
    outcome = "ok" =>
        /\ Len(status) = Len(roster_df)
        /\ \A q \in 1..Len(roster_df) :
              /\ status[q] \in {"Submitted", "Missing"}
              /\ status[q] = "Submitted" <=> IdOf(roster_df[q]) \in submitted_ids
              /\ status[q] = "Missing" <=> IdOf(roster_df[q]) \in missing_ids

\* A roster with a submitted row and a missing row, and a submitted
\* identifier of no row.
C8_Witness ==
    /\ outcome = "ok"
    /\ \E q, r \in 1..Len(roster_df) : status[q] = "Submitted" /\ status[r] = "Missing"
    /\ submitted_ids \ all_student_ids # {}

====
